---- MODULE Spec2Model ----
(***************************************************************************)
(* A model of metrics.py: the four stateful confusion-count accumulators   *)
(* (FalsePosRate, FalseNegRate, FBetaScore, Distance) and the              *)
(* cross-validation ROC aggregator.                                        *)
(*                                                                         *)
(* Conventions                                                             *)
(*  - A tensor is a sequence.  Labels are 0/1, scores are in tenths, so    *)
(*    the default threshold 0.5 is the integer 5.                          *)
(*  - An accumulator value n / (d + EPS) is kept exactly, as the record    *)
(*    [num |-> n, den |-> d]; the EPS term of the denominator is implicit. *)
(*    For counts below 1/EPS two such quotients are equal exactly when     *)
(*    their records are equal or both numerators are 0.                    *)
(*  - The accumulators are Keras layers used in graph mode: __call__       *)
(*    registers the K.update_add ops with add_update and returns a tensor  *)
(*    that reads the counter variables.  Nothing orders those reads after  *)
(*    the updates (no control dependency), so one execution of the graph   *)
(*    on a batch (one "update call") may read each counter before or after *)
(*    its update_add ran.                                                  *)
(*  - The methods of ROC are read with their receiver bound (the source    *)
(*    omits "self" in the signatures and writes mean_fpr for               *)
(*    self.mean_fpr) and with numpy, pyplot and the default metric bound.  *)
(*    roc_curve, interp, auc, mean and std are library code: the model     *)
(*    takes the curve roc_curve returns as the input of a fold and         *)
(*    computes the others in fixed point.                                  *)
(***************************************************************************)
EXTENDS Integers, Sequences, FiniteSets, TLC

\* ---------------------------------------------------------------- bounds
MaxLen == 2
MaxCount == 3
MaxCalls == 2
MaxFolds == 2

\* ------------------------------------------------------------- constants
\* threshold=0.5, in tenths
Threshold == 5
\* np.linspace(0, 1, 100)
GridN == 100

Labels == {0, 1}
Scores == {Threshold - 2, Threshold, Threshold + 2}
Betas == {1, 2}
Insts == {"a", "b"}

SeqsUpTo(S, n) == UNION {[1..k -> S] : k \in 0..n}
LabelSeqs == SeqsUpTo(Labels, MaxLen)
ScoreSeqs == SeqsUpTo(Scores, MaxLen)

VARIABLES
    cfg,      \* cfg[i]: class (and beta) of accumulator instance i
    cnt,      \* cnt[i]: the K.variable counters instance i owns
    lastOp,   \* the operation that led to this state: [op, inst]
    call,     \* observation: arguments and result of the last update call
    hist,     \* observation: the batches given to an instance since its
              \* construction or last reset
    pure,     \* SpecCounts: a batch and the counts computed from it
    roc,      \* the fields of the ROC aggregator
    rocOp     \* the ROC operation that led to this state, and its outcome

accVars == <<cfg, cnt, lastOp, call, hist, pure>>
rocVars == <<roc, rocOp>>
vars == <<cfg, cnt, lastOp, call, hist, pure, roc, rocOp>>

None == "None"

\* ------------------------------------------------------ tensor primitives

\* tf broadcasting of two rank-1 tensors: equal lengths, or one of length 1
Broadcastable(a, b) == Len(a) = Len(b) \/ Len(a) = 1 \/ Len(b) = 1

BLen(a, b) == IF Len(a) = 1 THEN Len(b) ELSE Len(a)

At(a, k) == IF Len(a) = 1 THEN a[1] ELSE a[k]

RECURSIVE SumTo(_, _)
SumTo(f, n) == IF n = 0 THEN 0 ELSE f[n] + SumTo(f, n - 1)

\* K.sum of a rank-1 tensor
Ksum(f) == SumTo(f, Len(f))

\* K.cast of a boolean tensor element to float32
Cast(b) == IF b THEN 1 ELSE 0

_sanitize(y_true, y_pred, threshold) ==
    <<y_true, [k \in 1..Len(y_pred) |-> Cast(y_pred[k] > threshold)]>>

good_preds(y_true, y_pred) ==
    [k \in 1..BLen(y_true, y_pred) |-> Cast(At(y_pred, k) = At(y_true, k))]

bad_preds(y_true, y_pred) ==
    [k \in 1..BLen(y_true, y_pred) |-> Cast(~(At(y_pred, k) = At(y_true, k)))]

_tn(y_true, y_pred) ==
    LET g == good_preds(y_true, y_pred)
    IN  Ksum([k \in 1..Len(g) |-> g[k] * Cast(At(y_true, k) = 0)])

_tp(y_true, y_pred) ==
    LET g == good_preds(y_true, y_pred)
    IN  Ksum([k \in 1..Len(g) |-> g[k] * At(y_true, k)])

\* _fp without its K.equal(y_true, 0) mask
_fp_unmasked(y_true, y_pred) == Ksum(bad_preds(y_true, y_pred))

_fp(y_true, y_pred) ==
    LET b == bad_preds(y_true, y_pred)
    IN  Ksum([k \in 1..Len(b) |-> b[k] * Cast(At(y_true, k) = 0)])

_fn(y_true, y_pred) ==
    LET b == bad_preds(y_true, y_pred)
    IN  Ksum([k \in 1..Len(b) |-> b[k] * At(y_true, k)])

_tp_tn_fp_fn(y_true, y_pred) ==
    [tp |-> _tp(y_true, y_pred), tn |-> _tn(y_true, y_pred),
     fp |-> _fp(y_true, y_pred), fn |-> _fn(y_true, y_pred)]

\* ------------------------------------------------------------ accumulators

Configs ==
    {[cls |-> c, beta2 |-> 0] : c \in {"FalsePosRate", "FalseNegRate", "Distance"}}
    \cup {[cls |-> "FBetaScore", beta2 |-> b * b] : b \in Betas}

\* the counters each class creates in __init__
Owned(cls) ==
    CASE cls = "FalsePosRate" -> {"fp", "tn"}
      [] cls = "FalseNegRate" -> {"tp", "fn"}
      [] cls = "FBetaScore"   -> {"tp", "fn", "fp"}
      [] cls = "Distance"     -> {"tp", "fp", "tn", "fn"}

\* __init__: every counter is K.variable(0)
NewCounters(cls) == [k \in Owned(cls) |-> 0]

\* the counters reset_states names in its K.set_value(counter, 0) lines
ResetNames(cls) ==
    CASE cls = "FalsePosRate" -> {"fp", "tn"}
      [] cls = "FalseNegRate" -> {"tp", "fn"}
      [] cls = "FBetaScore"   -> {"tp", "fn", "fp"}
      [] cls = "Distance"     -> {"tp", "fn", "fp", "tn"}

reset_states(c, cls) ==
    [k \in DOMAIN c |-> IF k \in ResetNames(cls) THEN 0 ELSE c[k]]

\* K.update_add(x, increment)
update_add(x, inc) == x + inc

\* n / (d + eps)
Quot(n, d) == IF n = 0 THEN [num |-> 0, den |-> 0] ELSE [num |-> n, den |-> d]

\* the tensor a class's __call__ returns, over the counter values v it reads
Value(c, v) ==
    CASE c.cls = "FalsePosRate" -> Quot(v.fp, v.fp + v.tn)
      [] c.cls = "FalseNegRate" -> Quot(v.fn, v.fn + v.tp)
      [] c.cls = "FBetaScore"   ->
            Quot((1 + c.beta2) * v.tp,
                 (1 + c.beta2) * v.tp + c.beta2 * v.fn + v.fp)
      [] c.cls = "Distance"     ->
            [sqrtSumSq |-> <<Quot(v.fn, v.fn + v.tp), Quot(v.fp, v.fp + v.tn)>>]

\* What __call__ computes from its arguments alone: whether the element-wise
\* ops accept the two shapes, and the batch counts.
Analyse(y_true, y_pred) ==
    LET s == _sanitize(y_true, y_pred, Threshold)
    IN  IF Broadcastable(y_true, y_pred)
        THEN [ok |-> TRUE, n |-> BLen(y_true, y_pred),
              counts |-> _tp_tn_fp_fn(s[1], s[2])]
        ELSE [ok |-> FALSE, n |-> 0,
              counts |-> [tp |-> 0, tn |-> 0, fp |-> 0, fn |-> 0]]

Inputs == LabelSeqs \X ScoreSeqs

Batches == {in \in Inputs : Len(in[1]) = Len(in[2])}

Outcomes == {Analyse(in[1], in[2]) : in \in Inputs}

\* the element-wise ops reject the shapes
ShapeError == [raised |-> "InvalidArgumentError"]

\* no update call observed yet
NoCall == [n |-> 0]

\* One execution of __call__'s graph on a batch analysed as o.  seen: the
\* counters whose read observes the value after its update_add.  The result:
\* the counters afterwards and what the call returns.
Apply(c, old, o, seen) ==
    LET new == [k \in DOMAIN old |-> update_add(old[k], o.counts[k])]
        rd  == [k \in DOMAIN old |-> IF k \in seen THEN new[k] ELSE old[k]]
    IN  IF o.ok
        THEN [cnt |-> new, ret |-> Value(c, rd)]
        ELSE [cnt |-> old, ret |-> ShapeError]

Call(c, old, y_true, y_pred, seen) ==
    Apply(c, old, Analyse(y_true, y_pred), seen)

Total(c) == SumTo([k \in 1..4 |->
                LET name == <<"tp", "tn", "fp", "fn">>[k]
                IN  IF name \in DOMAIN c THEN c[name] ELSE 0], 4)

\* self.<counter> = K.variable(0): each instance holds variables of its own,
\* so writing instance i's counters writes no other instance's
StoreShared(all, i, new) ==
    [j \in DOMAIN all |-> IF DOMAIN all[j] = DOMAIN new THEN new ELSE all[j]]

Store(all, i, new) == [all EXCEPT ![i] = new]

InitCore ==
    /\ cnt = [i \in Insts |-> NewCounters(cfg[i].cls)]
    /\ lastOp = [op |-> "init", inst |-> None]
    /\ call = NoCall
    /\ hist = <<>>
    /\ pure = [done |-> FALSE]
    /\ roc = [built |-> FALSE]
    /\ rocOp = [op |-> "none"]

\* reset_states of instance i
Reset(i) ==
    /\ cnt' = Store(cnt, i, reset_states(cnt[i], cfg[i].cls))
    /\ lastOp' = [op |-> "reset", inst |-> i]
    /\ call' = NoCall
    /\ hist' = <<>>
    /\ UNCHANGED <<cfg, pure, roc, rocOp>>

\* ---- Spec: two instances, any interleaving of updates and resets.  The
\* value an update returns is not recorded here.
Update(i) ==
    \E o \in Outcomes :
        /\ Total(cnt[i]) + o.n <= MaxCount
        /\ cnt' = Store(cnt, i, Apply(cfg[i], cnt[i], o, {}).cnt)
        /\ lastOp' = [op |-> "update", inst |-> i]
        /\ UNCHANGED <<cfg, call, hist, pure, roc, rocOp>>

Init == cfg \in [Insts -> Configs] /\ InitCore

Next == \E i \in Insts : Update(i) \/ Reset(i)

Spec == Init /\ [][Next]_vars

\* ---- SpecCall: instance "a" alone, with each update call observed:
\* its arguments, the counters before it, and what it returned.
Observed(i, in, o, seen) ==
    LET r == Apply(cfg[i], cnt[i], o, seen)
    IN  /\ cnt' = Store(cnt, i, r.cnt)
        /\ lastOp' = [op |-> "update", inst |-> i]
        /\ call' = [y_true |-> in[1], y_pred |-> in[2], ret |-> r.ret,
                    before |-> cnt[i],
                    afterReset |-> lastOp = [op |-> "reset", inst |-> i],
                    n |-> call.n + 1]
        /\ UNCHANGED <<cfg, pure, roc, rocOp>>

UpdateObserved ==
    /\ call.n < MaxCalls
    /\ \E in \in Inputs :
         LET o == Analyse(in[1], in[2])
         IN  /\ Total(cnt["a"]) + o.n <= MaxCount
             /\ \E seen \in SUBSET Owned(cfg["a"].cls) : Observed("a", in, o, seen)
    /\ UNCHANGED hist

InitCall ==
    /\ cfg \in {f \in [Insts -> Configs] : f["b"] = f["a"]}
    /\ InitCore

NextCall == UpdateObserved \/ Reset("a")

SpecCall == InitCall /\ [][NextCall]_vars

\* ---- SpecSeq: a FalsePosRate or FalseNegRate instance, with the batches
\* it was given since its construction or last reset logged.
UpdateLogged ==
    /\ Len(hist) < MaxCalls
    /\ \E in \in Batches :
         LET o == Analyse(in[1], in[2])
         IN  /\ \E seen \in SUBSET Owned(cfg["a"].cls) : Observed("a", in, o, seen)
             /\ hist' = Append(hist, in)

InitSeq ==
    /\ cfg \in {f \in [Insts -> Configs] :
                  f["b"] = f["a"] /\ f["a"].cls \in {"FalsePosRate", "FalseNegRate"}}
    /\ InitCore

NextSeq == UpdateLogged \/ Reset("a")

SpecSeq == InitSeq /\ [][NextSeq]_vars

\* ---- SpecCounts: the four count functions on one batch
PureLen == MaxLen + 2

PureBatches ==
    UNION {[1..k -> Labels] \X [1..k -> Scores] : k \in 0..PureLen}

CountBatch ==
    /\ ~pure.done
    /\ pure' = [y_true |-> pure.y_true, y_pred |-> pure.y_pred, done |-> TRUE,
                counts |-> LET s == _sanitize(pure.y_true, pure.y_pred, Threshold)
                           IN  _tp_tn_fp_fn(s[1], s[2])]
    /\ UNCHANGED <<cfg, cnt, lastOp, call, hist, roc, rocOp>>

InitCounts ==
    /\ cfg = [i \in Insts |-> [cls |-> "Distance", beta2 |-> 0]]
    /\ cnt = [i \in Insts |-> NewCounters(cfg[i].cls)]
    /\ lastOp = [op |-> "init", inst |-> None]
    /\ call = NoCall
    /\ hist = <<>>
    /\ roc = [built |-> FALSE]
    /\ rocOp = [op |-> "none"]
    /\ pure \in {[y_true |-> b[1], y_pred |-> b[2], done |-> FALSE] : b \in PureBatches}

NextCounts == CountBatch

SpecCounts == InitCounts /\ [][NextCounts]_vars

\* ---------------------------------------------------------- ROC aggregator

\* Rates, areas and metric values are fixed-point numbers in units of 1/Scale;
\* Scale is a multiple of GridN - 1, so the grid points are exact.
Scale == (GridN - 1) * 100

\* Python values
PyNone == [t |-> "None"]
NaN == [t |-> "nan"]
Float(x) == [t |-> "float", v |-> x]
Array(s) == [t |-> "array", v |-> s]

\* self.mean_fpr = np.linspace(0, 1, 100)
mean_fpr == [k \in 1..GridN |-> ((k - 1) * Scale) \div (GridN - 1)]

RECURSIVE Newton(_, _)
Newton(n, x) ==
    LET y == (x + n \div x) \div 2
    IN  IF y >= x THEN x ELSE Newton(n, y)

\* the square root, rounded down
Sqrt(n) == IF n = 0 THEN 0 ELSE Newton(n, n)

RECURSIVE LastLE(_, _, _)
LastLE(x, xs, k) == IF xs[k] <= x THEN k ELSE LastLE(x, xs, k - 1)

\* scipy.interp (numpy.interp) at one point x >= xs[1]
InterpAt(x, xs, ys) ==
    LET j == LastLE(x, xs, Len(xs))
    IN  IF j = Len(xs) \/ xs[j] = x THEN ys[j]
        ELSE ys[j] + ((ys[j + 1] - ys[j]) * (x - xs[j])) \div (xs[j + 1] - xs[j])

interp(x, xp, yp) == [k \in 1..Len(x) |-> InterpAt(x[k], xp, yp)]

\* sklearn.metrics.auc: the trapezoidal rule
auc(x, y) ==
    SumTo([k \in 1..(Len(x) - 1) |-> (x[k + 1] - x[k]) * (y[k + 1] + y[k])],
          Len(x) - 1) \div (2 * Scale)

\* np.mean(list of arrays, axis=0); NaN for an empty list
np_mean_axis0(arrs) ==
    IF arrs = <<>> THEN NaN
    ELSE Array([k \in 1..GridN |->
            SumTo([f \in 1..Len(arrs) |-> arrs[f][k]], Len(arrs)) \div Len(arrs)])

\* np.std of a list of numbers; NaN for an empty list
StdOf(xs) ==
    LET m == SumTo(xs, Len(xs)) \div Len(xs)
    IN  Sqrt(SumTo([f \in 1..Len(xs) |-> (xs[f] - m) * (xs[f] - m)], Len(xs))
             \div Len(xs))

np_std(xs) == IF xs = <<>> THEN NaN ELSE Float(StdOf(xs))

\* np.std(list of arrays, axis=0); NaN for an empty list
np_std_axis0(arrs) ==
    IF arrs = <<>> THEN NaN
    ELSE Array([k \in 1..GridN |-> StdOf([f \in 1..Len(arrs) |-> arrs[f][k]])])

\* np.argmax, np.argmin: the first position of the extreme, counted from 0
np_argmax(d) ==
    (CHOOSE i \in 1..Len(d) :
        /\ \A j \in 1..Len(d) : d[j] <= d[i]
        /\ \A j \in 1..(i - 1) : d[j] < d[i]) - 1

np_argmin(d) ==
    (CHOOSE i \in 1..Len(d) :
        /\ \A j \in 1..Len(d) : d[j] >= d[i]
        /\ \A j \in 1..(i - 1) : d[j] > d[i]) - 1

\* self.argcmp = np.argmax if op == 'max' else np.argmin
ArgcmpFor(op) == IF op = "max" THEN "argmax" ELSE "argmin"

argcmp(name, d) == IF name = "argmax" THEN np_argmax(d) ELSE np_argmin(d)

\* an assignment to the last slot in place of list.append
append_overwrite(l, x) == IF l = <<>> THEN <<x>> ELSE [l EXCEPT ![Len(l)] = x]

\* list.append
append(l, x) == Append(l, x)

\* the metric the caller configured, applied to the arrays of one fold
Metrics == {"distance", "sensitivity"}

func(name, tpr, fpr) ==
    [k \in 1..Len(tpr) |->
        IF name = "distance"
        THEN Sqrt((Scale - tpr[k]) * (Scale - tpr[k]) + fpr[k] * fpr[k])
        ELSE tpr[k]]

Ops == {"max", "min", "avg"}

\* What roc_curve(y_true, proba) returns for a fold: the points of the
\* threshold sweep, from (0,0) to (1,1).  Staircase(m): m negatives and m
\* positives ranked alternately, a negative first: 2m + 1 points.
Staircase(m) ==
    [fpr |-> [k \in 1..(2 * m + 1) |-> (k \div 2) * (Scale \div m)],
     tpr |-> [k \in 1..(2 * m + 1) |-> ((k - 1) \div 2) * (Scale \div m)]]

Curves ==
    { [fpr |-> <<0, 0, Scale>>, tpr |-> <<0, Scale, Scale>>],
      [fpr |-> <<0, 0, Scale \div 2, Scale \div 2, Scale>>,
       tpr |-> <<0, Scale \div 2, Scale \div 2, Scale, Scale>>],
      Staircase(GridN \div 2) }

\* __init__(metric, op)
Construct ==
    /\ ~roc.built
    /\ \E metric \in Metrics, op \in Ops :
         /\ roc' = [built |-> TRUE, op |-> op,
                    inter_tprs |-> <<>>, tprs |-> <<>>, fprs |-> <<>>, aucs |-> <<>>,
                    mean_tpr |-> PyNone, mean_auc |-> PyNone,
                    std_tpr |-> PyNone, std_auc |-> PyNone,
                    func |-> metric, argcmp |-> ArgcmpFor(op)]
         /\ rocOp' = [op |-> "__init__", raised |-> "none", ret |-> PyNone]
    /\ UNCHANGED accVars

\* __call__(y_true, proba)
Evaluate ==
    /\ roc.built
    /\ Len(roc.aucs) < MaxFolds
    /\ \E c \in Curves :
         LET fpr   == c.fpr
             tpr   == c.tpr
             inter == [interp(mean_fpr, fpr, tpr) EXCEPT ![1] = 0]
             dist  == func(roc.func, tpr, fpr)
             idx   == argcmp(roc.argcmp, dist)
         IN  /\ roc' = [roc EXCEPT !.inter_tprs = append(@, inter),
                                   !.tprs = append(@, tpr),
                                   !.fprs = append(@, fpr),
                                   !.aucs = append(@, auc(fpr, tpr))]
             /\ rocOp' = IF idx + 1 <= Len(inter)
                         THEN [op |-> "evaluate", raised |-> "none",
                               ret |-> <<inter[idx + 1], dist[idx + 1]>>]
                         ELSE [op |-> "evaluate", raised |-> "IndexError",
                               ret |-> PyNone]
    /\ UNCHANGED accVars

\* a test that always recomputes
CacheMissAlways(a, b) == TRUE

\* the test of mean() and std(): is a cached field missing?
CacheMiss(a, b) == a = PyNone \/ b = PyNone

\* _mean(): the fields afterwards.  With no fold np.mean gives NaN, which auc
\* rejects: mean_tpr is assigned, the exception leaves mean_auc as it was.
_mean(r) ==
    LET m == np_mean_axis0(r.inter_tprs)
    IN  IF m = NaN
        THEN [r EXCEPT !.mean_tpr = NaN]
        ELSE [r EXCEPT !.mean_tpr = Array([m.v EXCEPT ![GridN] = Scale]),
                       !.mean_auc = Float(auc(mean_fpr, m.v))]

_meanRaises(r) == r.inter_tprs = <<>>

\* _std(): the fields afterwards
_std(r) ==
    [r EXCEPT !.std_tpr = np_std_axis0(r.inter_tprs), !.std_auc = np_std(r.aucs)]

\* mean(): the fields afterwards and the outcome
mean(r) ==
    IF CacheMiss(r.mean_tpr, r.mean_auc)
    THEN IF _meanRaises(r)
         THEN [roc |-> _mean(r), raised |-> "TypeError", ret |-> PyNone]
         ELSE [roc |-> _mean(r), raised |-> "none",
               ret |-> <<_mean(r).mean_tpr, _mean(r).mean_auc>>]
    ELSE [roc |-> r, raised |-> "none", ret |-> <<r.mean_tpr, r.mean_auc>>]

\* std(): the fields afterwards and the outcome
std(r) ==
    IF CacheMiss(r.std_tpr, r.std_auc)
    THEN [roc |-> _std(r), raised |-> "none",
          ret |-> <<_std(r).std_tpr, _std(r).std_auc>>]
    ELSE [roc |-> r, raised |-> "none", ret |-> <<r.std_tpr, r.std_auc>>]

Mean ==
    /\ roc.built
    /\ roc' = mean(roc).roc
    /\ rocOp' = [op |-> "mean", raised |-> mean(roc).raised, ret |-> mean(roc).ret]
    /\ UNCHANGED accVars

Std ==
    /\ roc.built
    /\ roc' = std(roc).roc
    /\ rocOp' = [op |-> "std", raised |-> std(roc).raised, ret |-> std(roc).ret]
    /\ UNCHANGED accVars

\* plot(filename, std): mean(), then std(), then the drawing, which changes
\* no field
Plot ==
    /\ roc.built
    /\ LET m == mean(roc)
       IN  IF m.raised # "none"
           THEN /\ roc' = m.roc
                /\ rocOp' = [op |-> "plot", raised |-> m.raised, ret |-> PyNone]
           ELSE /\ roc' = std(m.roc).roc
                /\ rocOp' = [op |-> "plot", raised |-> "none", ret |-> PyNone]
    /\ UNCHANGED accVars

InitROC ==
    /\ cfg = [i \in Insts |-> [cls |-> "Distance", beta2 |-> 0]]
    /\ InitCore

NextROC == Construct \/ Evaluate \/ Mean \/ Std \/ Plot

SpecROC == InitROC /\ [][NextROC]_vars

\* ------------------------------------------------------------------ claims

\* the counters after feeding the batches of h, in order, to a new instance
RECURSIVE Accumulate(_, _)
Accumulate(cls, h) ==
    IF h = <<>> THEN NewCounters(cls)
    ELSE LET prev == Accumulate(cls, SubSeq(h, 1, Len(h) - 1))
             o    == Analyse(h[Len(h)][1], h[Len(h)][2])
         IN  [k \in DOMAIN prev |-> update_add(prev[k], o.counts[k])]

Perms(n) == {p \in [1..n -> 1..n] : \A x, y \in 1..n : p[x] = p[y] => x = y}

\* C1: for FalsePosRate and FalseNegRate, the value the N-th update call
\* since construction or the last reset returns is the ratio fp/(fp+tn+eps)
\* (resp. fn/(fn+tp+eps)) of the counts summed over all N batches, the N-th
\* included, and every reordering of the N batches gives the same value.
C1_CumulativeRatio ==
    lastOp.op = "update" =>
        LET c == cfg["a"]
            v == Value(c, Accumulate(c.cls, hist))
        IN  /\ call.ret = v
            /\ \A p \in Perms(Len(hist)) :
                 Value(c, Accumulate(c.cls, [k \in 1..Len(hist) |-> hist[p[k]]])) = v

\* C2: reset sets every counter the accumulator owns to 0, and the update
\* with batch B that follows a reset returns exactly the value a newly
\* constructed accumulator returns on its first update with B.
C2_ResetReproducesFirstCall ==
    /\ lastOp.op = "reset" =>
         \A k \in DOMAIN cnt[lastOp.inst] : cnt[lastOp.inst][k] = 0
    /\ (lastOp.op = "update" /\ call.afterReset) =>
         \A seen \in SUBSET Owned(cfg["a"].cls) :
            call.ret = Call(cfg["a"], NewCounters(cfg["a"].cls),
                            call.y_true, call.y_pred, seen).ret

\* the number of elements with label t whose binarized score is p
CountOf(y_true, y_pred, t, p) ==
    Cardinality({k \in 1..Len(y_true) :
        y_true[k] = t /\ (IF y_pred[k] > Threshold THEN 1 ELSE 0) = p})

\* C3: for labels in {0,1} and scores binarized against the threshold, the
\* counts of _tp, _tn, _fp and _fn sum to the batch size, each element being
\* counted in exactly one of the four classes.
C3_CountsPartitionBatch ==
    pure.done =>
        /\ pure.counts.tp + pure.counts.tn + pure.counts.fp + pure.counts.fn
             = Len(pure.y_true)
        /\ pure.counts.tp = CountOf(pure.y_true, pure.y_pred, 1, 1)
        /\ pure.counts.tn = CountOf(pure.y_true, pure.y_pred, 0, 0)
        /\ pure.counts.fp = CountOf(pure.y_true, pure.y_pred, 0, 1)
        /\ pure.counts.fn = CountOf(pure.y_true, pure.y_pred, 1, 0)

C3_Witness ==
    /\ pure.done
    /\ pure.counts.tp > 0 /\ pure.counts.tn > 0
    /\ pure.counts.fp > 0 /\ pure.counts.fn > 0
    /\ \E k \in 1..Len(pure.y_pred) : pure.y_pred[k] = Threshold

\* C9: an update called with label and score sequences of different lengths
\* fails with a shape error before any counting, and leaves all counters of
\* the accumulator unchanged.
C9_MismatchedLengthsRejected ==
    (lastOp.op = "update" /\ Len(call.y_true) # Len(call.y_pred)) =>
        /\ call.ret = ShapeError
        /\ cnt["a"] = call.before

C10_NonNegative ==
    \A i \in Insts : \A k \in DOMAIN cnt[i] : cnt[i][k] >= 0

C10_Step ==
    \A i \in Insts : \A k \in DOMAIN cnt[i] :
        cnt'[i][k] # cnt[i][k] =>
            /\ lastOp'.inst = i
            /\ \/ lastOp'.op = "update" /\ cnt'[i][k] > cnt[i][k]
               \/ lastOp'.op = "reset" /\ cnt'[i][k] = 0

\* C10: every counter is non-negative in every reachable state; a counter
\* changes only by an update of its own instance, which never decreases it,
\* or by a reset of its own instance, which sets it to 0; operations on one
\* instance leave the counters of every other instance unchanged.
C10_CountersOwnedAndMonotone == []C10_NonNegative /\ [][C10_Step]_vars

C10_Witness ==
    /\ lastOp = [op |-> "reset", inst |-> "a"]
    /\ cfg["a"] = cfg["b"]
    /\ Total(cnt["a"]) = 0
    /\ Total(cnt["b"]) = MaxCount

C4_Step ==
    roc.built =>
        /\ (roc.mean_tpr # PyNone /\ roc.mean_auc # PyNone) =>
              roc'.mean_tpr = roc.mean_tpr /\ roc'.mean_auc = roc.mean_auc
        /\ (roc.std_tpr # PyNone /\ roc.std_auc # PyNone) =>
              roc'.std_tpr = roc.std_tpr /\ roc'.std_auc = roc.std_auc
        /\ (rocOp'.op = "mean" /\ rocOp'.raised = "none") =>
              rocOp'.ret = <<roc'.mean_tpr, roc'.mean_auc>>
        /\ (rocOp'.op = "std" /\ rocOp'.raised = "none") =>
              rocOp'.ret = <<roc'.std_tpr, roc'.std_auc>>

C5_EmptyAggregateFails ==
    (roc.built /\ rocOp.op \in {"mean", "std"} /\ roc.aucs = <<>>) =>
        /\ rocOp.raised # "none"
        /\ roc.mean_tpr = PyNone /\ roc.mean_auc = PyNone
        /\ roc.std_tpr = PyNone /\ roc.std_auc = PyNone

\* C6: constructing the aggregator with an op other than 'max' or 'min'
\* fails; no aggregator is produced.
C6_InvalidOpRejected ==
    (roc.built /\ rocOp.op = "__init__") => roc.op \in {"max", "min"}

IsExtension(old, new) ==
    Len(new) = Len(old) + 1 /\ SubSeq(new, 1, Len(old)) = old

C7_Step ==
    roc.built =>
        IF rocOp'.op = "evaluate"
        THEN /\ IsExtension(roc.fprs, roc'.fprs)
             /\ IsExtension(roc.tprs, roc'.tprs)
             /\ IsExtension(roc.inter_tprs, roc'.inter_tprs)
             /\ IsExtension(roc.aucs, roc'.aucs)
        ELSE /\ roc'.fprs = roc.fprs
             /\ roc'.tprs = roc.tprs
             /\ roc'.inter_tprs = roc.inter_tprs
             /\ roc'.aucs = roc.aucs

C8_ReturnsExtremalPoint ==
    (roc.built /\ rocOp.op = "evaluate" /\ roc.op \in {"max", "min"}) =>
        LET n == Len(roc.tprs)
            d == func(roc.func, roc.tprs[n], roc.fprs[n])
        IN  \E i \in 1..Len(d) :
              /\ \A j \in 1..Len(d) :
                    IF roc.op = "max" THEN d[j] <= d[i] ELSE d[j] >= d[i]
              /\ i <= GridN
              /\ rocOp.raised = "none"
              /\ rocOp.ret = <<roc.inter_tprs[n][i], d[i]>>

====
